---- MODULE Spec2Model ----
(***************************************************************************)
(* A model of SharePointClient.py: the client object, the remote SharePoint *)
(* library it talks to, and the local directory it downloads to.            *)
(*                                                                          *)
(* Paths (server-relative URLs, local paths) are sequences of components:   *)
(* "/lib/A/f" is <<"lib", "A", "f">>.  Component names contain neither "/"  *)
(* nor "\", so the .replace('\\', '/') of line 129 leaves them as they are. *)
(*                                                                          *)
(* The module is modelled as run with __name__ == '__main__' (lines 2-6),   *)
(* so that os and requests are bound.  The name base_path read at line 129  *)
(* is bound nowhere in the file: it resolves in the module globals, which   *)
(* the file does not fill, so it is either unbound (NameError) or whatever  *)
(* the enclosing namespace bound it to.                                     *)
(***************************************************************************)
EXTENDS Integers, Sequences, FiniteSets, TLC

\* Depth of the remote folder universe below the library root.
MaxTreeDepth == 2

StatusOK == 200
StatusCreated == 201
StatusNotFound == 404

None_ == "None"            \* Python's None
Unbound == "<unbound>"     \* a global name with no binding
NoExc == "none"            \* the call returned

Root == <<"lib">>
FolderNames == <<"A", "B">>     \* in the order the API lists them
FileNames == <<"f">>
TargetDir == <<"out">>
sp_site == "S"
site_url == "https://t.sharepoint.com"

VARIABLES
    base_path,      \* the module-global name base_path (line 129)
    client,         \* "none" | "ready": whether a client object exists
    access_token,   \* self.access_token
    folders,        \* remote: the folders of the library
    files,          \* remote: the files of the library
    local,          \* local file system: path -> [src, complete]
    call,           \* the last operation called, with its arguments
    result,         \* its outcome: [exc, value]
    requests        \* the HTTP requests it issued, in order, with the answers

vars == <<base_path, client, access_token, folders, files, local, call, result, requests>>

----------------------------------------------------------------------------
(* Paths *)

basename(p) == p[Len(p)]
dirname(p) == SubSeq(p, 1, Len(p) - 1)
join(a, b) == a \o b          \* os.path.join with a relative second argument

Min(a, b) == IF a < b THEN a ELSE b

\* len(os.path.commonprefix([start_list, path_list]))
CommonLen(a, b) ==
    LET agree == {i \in 0..Min(Len(a), Len(b)) : \A j \in 1..i : a[j] = b[j]}
    IN  CHOOSE i \in agree : \A k \in agree : k <= i

\* os.path.relpath(path, start) for absolute, normalised arguments
relpath(path, start) ==
    LET i == CommonLen(start, path)
        rel == [k \in 1..(Len(start) - i) |-> ".."] \o SubSeq(path, i + 1, Len(path))
    IN  IF rel = <<>> THEN <<".">> ELSE rel

\* Where the file system puts a path: ".." steps back, "." stays.
RECURSIVE Resolve(_, _)
Resolve(p, acc) ==
    IF p = <<>> THEN acc
    ELSE IF Head(p) = "." THEN Resolve(Tail(p), acc)
    ELSE IF Head(p) = ".." /\ acc # <<>> /\ acc[Len(acc)] # ".."
         THEN Resolve(Tail(p), SubSeq(acc, 1, Len(acc) - 1))
    ELSE Resolve(Tail(p), Append(acc, Head(p)))

----------------------------------------------------------------------------
(* The remote library *)

RECURSIVE Chain(_)
Chain(k) == IF k = 0 THEN Root ELSE Append(Chain(k - 1), "A")

\* lib, lib/B, lib/A, lib/A/A, ... : a chain of folders and one sibling.
FolderUniverse ==
    {Chain(k) : k \in 0..MaxTreeDepth} \cup {Append(Root, "B")}

FileUniverse == {Append(d, FileNames[i]) : d \in FolderUniverse, i \in 1..Len(FileNames)}

IsTree(fs, fl) ==
    /\ Root \in fs
    /\ \A d \in fs : d = Root \/ dirname(d) \in fs
    /\ \A f \in fl : dirname(f) \in fs

\* What the module globals may hold under the name base_path.
GlobalBindings == {Unbound, Root, Append(Root, "A")}

\* response.raise_for_status(): raises for 4xx and 5xx
RaisesForStatus(st) == st >= 400 /\ st < 600

Authorized == access_token # None_

Req(method, api, url, st, body) ==
    [method |-> method, api |-> api, url |-> url, status |-> st, body |-> body]

\* The server's answer to the folder listing of line 113.
ListStatus(url, down) ==
    IF ~Authorized THEN 401
    ELSE IF url \in down THEN 500
    ELSE IF url \in folders THEN StatusOK
    ELSE StatusNotFound

\* api_result['d']['Files']['results'] and ['Folders']['results'], in API order
ChildFiles(url) ==
    LET names == SelectSeq(FileNames, LAMBDA n : Append(url, n) \in files)
    IN  [i \in 1..Len(names) |-> Append(url, names[i])]

ChildFolders(url) ==
    LET names == SelectSeq(FolderNames, LAMBDA n : Append(url, n) \in folders)
    IN  [i \in 1..Len(names) |-> Append(url, names[i])]

----------------------------------------------------------------------------
(* get_sp_folder_contents *)

\* The dictionary appended at lines 126-133.  base_path is the global.
FileEntry(file, _depth, _base_path) ==
    [name |-> basename(file),
     sp_site |-> sp_site,
     rel_path |-> relpath(file, base_path),
     server_relative_url |-> file,
     sp_url_path |-> <<site_url>> \o file,
     file_depth |-> _depth]

Raised(exc, log) == [exc |-> exc, value |-> None_, log |-> log]
Returned(value, log) == [exc |-> NoExc, value |-> value, log |-> log]

RECURSIVE get_sp_folder_contents(_, _, _, _, _)
RECURSIVE WalkSubfolders(_, _, _, _, _)

\* A variant of the loop of lines 138-143 that skips a subfolder whose listing
\* failed and goes on with the next.
WalkSubfoldersSkipping(subs, i, max_depth, _depth, down) ==
    IF i > Len(subs) THEN Returned(<<>>, <<>>)
    ELSE LET one == get_sp_folder_contents(subs[i], max_depth, _depth + 1, None_, down)
             rest == WalkSubfolders(subs, i + 1, max_depth, _depth, down)
         IN  IF rest.exc # NoExc THEN Raised(rest.exc, one.log \o rest.log)
             ELSE Returned((IF one.exc = NoExc THEN one.value ELSE <<>>) \o rest.value,
                           one.log \o rest.log)

\* for folder in folders: file_list.extend(self.get_sp_folder_contents(...))
\* An exception in one subfolder leaves the loop.
WalkSubfolders(subs, i, max_depth, _depth, down) ==
    IF i > Len(subs) THEN Returned(<<>>, <<>>)
    ELSE LET one == get_sp_folder_contents(subs[i], max_depth, _depth + 1, None_, down)
         IN  IF one.exc # NoExc THEN one
             ELSE LET rest == WalkSubfolders(subs, i + 1, max_depth, _depth, down)
                  IN  IF rest.exc # NoExc THEN Raised(rest.exc, one.log \o rest.log)
                      ELSE Returned(one.value \o rest.value, one.log \o rest.log)

\* down: the folders whose listing the server fails with a 500.
get_sp_folder_contents(sp_folder_url, max_depth, _depth, base_arg, down) ==
    LET _base_path == IF base_arg = None_ THEN sp_folder_url ELSE base_arg
        st == ListStatus(sp_folder_url, down)
        req == Req("GET", "GetFolderByServerRelativeUrl?$expand", sp_folder_url, st, "")
        fls == ChildFiles(sp_folder_url)
        flds == ChildFolders(sp_folder_url)
    IN  IF RaisesForStatus(st) THEN Raised("HTTPError", <<req>>)
        ELSE IF fls # <<>> /\ base_path = Unbound THEN Raised("NameError", <<req>>)
        ELSE LET file_list == [i \in 1..Len(fls) |-> FileEntry(fls[i], _depth, _base_path)]
             IN  IF max_depth = -1 \/ _depth < max_depth
                 THEN LET sub == WalkSubfolders(flds, 1, max_depth, _depth, down)
                      IN  IF sub.exc # NoExc THEN Raised(sub.exc, <<req>> \o sub.log)
                          ELSE Returned(file_list \o sub.value, <<req>> \o sub.log)
                 ELSE Returned(file_list, <<req>>)

Urls(log) == {log[i].url : i \in 1..Len(log)}

----------------------------------------------------------------------------
(* Construction *)

\* The answers the identity endpoint may give to the POST of line 65.
TokenAnswers ==
    {[status |-> StatusOK, body |-> "access_token"],
     [status |-> StatusOK, body |-> "{}"],
     [status |-> 400, body |-> "error"]}

get_access_token(ans) ==
    LET req == Req("POST", "tokens/OAuth/2", <<>>, ans.status, ans.body)
    IN  IF RaisesForStatus(ans.status) THEN Raised("HTTPError", <<req>>)
        ELSE Returned(IF ans.body = "access_token" THEN "token" ELSE None_, <<req>>)

NoArgs == [op |-> "none"]

Init ==
    /\ base_path \in GlobalBindings
    /\ client = "none"
    /\ access_token = None_
    /\ folders \in {fs \in SUBSET FolderUniverse : IsTree(fs, {})}
    /\ files \in {fl \in SUBSET FileUniverse : IsTree(folders, fl)}
    /\ local = <<>>
    /\ call = NoArgs
    /\ result = [exc |-> NoExc, value |-> None_]
    /\ requests = <<>>

Outcome(r) == [exc |-> r.exc, value |-> r.value]

\* SharePointClient(...): lines 31-38
Construct ==
    /\ client = "none"
    /\ \E ans \in TokenAnswers :
         LET r == get_access_token(ans)
         IN  /\ call' = [op |-> "__init__"]
             /\ result' = [exc |-> r.exc, value |-> None_]
             /\ requests' = r.log
             /\ client' = IF r.exc = NoExc THEN "ready" ELSE "none"
             /\ access_token' = IF r.exc = NoExc THEN r.value ELSE access_token
    /\ UNCHANGED <<base_path, folders, files, local>>

DepthArgs == -1..MaxTreeDepth

CallGetSpFolderContents ==
    /\ client = "ready"
    /\ \E url \in FolderUniverse, max_depth \in DepthArgs,
          down \in {{}} \cup {{d} : d \in folders} :
         LET r == get_sp_folder_contents(url, max_depth, 0, None_, down)
         IN  /\ call' = [op |-> "get_sp_folder_contents", sp_folder_url |-> url,
                         max_depth |-> max_depth]
             /\ result' = Outcome(r)
             /\ requests' = r.log
    /\ UNCHANGED <<base_path, client, access_token, folders, files, local>>

----------------------------------------------------------------------------
(* download_sp_file, download_sp_folder *)

\* The server's answer to the GET of line 173.
FileStatus(url, bad) ==
    IF ~Authorized THEN 401
    ELSE IF url \in bad THEN 500
    ELSE IF url \in files THEN StatusOK
    ELSE StatusNotFound

Write(fs, path, content) ==
    [p \in (DOMAIN fs) \cup {path} |-> IF p = path THEN content ELSE fs[p]]

Done(exc, value, log, fs) == [exc |-> exc, value |-> value, log |-> log, local |-> fs]

\* fs: the local file system before the call; bad: the files whose GET the
\* server fails; oserr: the files whose write fails part-way (OSError).
download_sp_file(sp_file_url, target_dir, fs, bad, oserr) ==
    LET st == FileStatus(sp_file_url, bad)
        req == Req("GET", "GetFileByServerRelativeUrl/$value", sp_file_url, st, "")
        file_name == basename(sp_file_url)
        file_path == join(target_dir, <<file_name>>)
        at == Resolve(file_path, <<>>)
    IN  IF RaisesForStatus(st) THEN Done("HTTPError", None_, <<req>>, fs)
        ELSE IF sp_file_url \in oserr
             THEN Done("OSError", None_, <<req>>,
                       Write(fs, at, [src |-> sp_file_url, complete |-> FALSE]))
        ELSE Done(NoExc, file_path, <<req>>,
                  Write(fs, at, [src |-> sp_file_url, complete |-> TRUE]))

\* The target_dir argument of lines 220-225.
TransferDir(file, target_dir, flatten) ==
    IF ~flatten THEN join(target_dir, dirname(file.rel_path)) ELSE target_dir

RECURSIVE TransferAll(_, _, _, _, _, _, _)

\* A variant of the loop of lines 219-230 that goes on after a failed transfer.
TransferAllContinuing(files_to_get, i, target_dir, flatten, fs, bad, oserr) ==
    IF i > Len(files_to_get) THEN Done(NoExc, <<>>, <<>>, fs)
    ELSE LET file == files_to_get[i]
             d == download_sp_file(file.server_relative_url,
                                   TransferDir(file, target_dir, flatten), fs, bad, oserr)
             rest == TransferAll(files_to_get, i + 1, target_dir, flatten, d.local, bad, oserr)
             one == IF d.exc = NoExc
                    THEN <<[file_details |-> file, target_path |-> d.value]>> ELSE <<>>
         IN  IF rest.exc # NoExc THEN Done(rest.exc, None_, d.log \o rest.log, rest.local)
             ELSE Done(NoExc, one \o rest.value, d.log \o rest.log, rest.local)

\* for file in files_to_get: download, then append to files_downloaded
TransferAll(files_to_get, i, target_dir, flatten, fs, bad, oserr) ==
    IF i > Len(files_to_get) THEN Done(NoExc, <<>>, <<>>, fs)
    ELSE LET file == files_to_get[i]
             d == download_sp_file(file.server_relative_url,
                                   TransferDir(file, target_dir, flatten), fs, bad, oserr)
         IN  IF d.exc # NoExc THEN d
             ELSE LET rest == TransferAll(files_to_get, i + 1, target_dir, flatten,
                                          d.local, bad, oserr)
                      one == <<[file_details |-> file, target_path |-> d.value]>>
                  IN  IF rest.exc # NoExc
                      THEN Done(rest.exc, None_, d.log \o rest.log, rest.local)
                      ELSE Done(NoExc, one \o rest.value, d.log \o rest.log, rest.local)

download_sp_folder(sp_folder_url, target_dir, flatten, max_depth, fs, down, bad, oserr) ==
    LET files_to_get == get_sp_folder_contents(sp_folder_url, max_depth, 0, None_, down)
    IN  IF files_to_get.exc # NoExc
        THEN Done(files_to_get.exc, None_, files_to_get.log, fs)
        ELSE LET t == TransferAll(files_to_get.value, 1, target_dir, flatten, fs, bad, oserr)
             IN  Done(t.exc, t.value, files_to_get.log \o t.log, t.local)

\* What the server or the local disk does wrong during one call: nothing, or one
\* failing request.
Faults ==
    {[down |-> {}, bad |-> {}, oserr |-> {}]}
    \cup {[down |-> {d}, bad |-> {}, oserr |-> {}] : d \in folders}
    \cup {[down |-> {}, bad |-> {f}, oserr |-> {}] : f \in files}
    \cup {[down |-> {}, bad |-> {}, oserr |-> {f}] : f \in files}

\* A download is the first operation of a new client, into an empty target
\* directory.
CallDownloadSpFile ==
    /\ client = "ready"
    /\ call.op = "__init__"
    /\ \E url \in FileUniverse, flt \in Faults :
         LET r == download_sp_file(url, TargetDir, local, flt.bad, flt.oserr)
         IN  /\ call' = [op |-> "download_sp_file", sp_file_url |-> url,
                         target_dir |-> TargetDir]
             /\ result' = Outcome(r)
             /\ requests' = r.log
             /\ local' = r.local
    /\ UNCHANGED <<base_path, client, access_token, folders, files>>

CallDownloadSpFolder ==
    /\ client = "ready"
    /\ call.op = "__init__"
    /\ \E url \in FolderUniverse, flatten \in BOOLEAN, max_depth \in DepthArgs,
          flt \in Faults :
         LET r == download_sp_folder(url, TargetDir, flatten, max_depth, local,
                                     flt.down, flt.bad, flt.oserr)
         IN  /\ call' = [op |-> "download_sp_folder", sp_folder_url |-> url,
                         target_dir |-> TargetDir, flatten |-> flatten,
                         max_depth |-> max_depth]
             /\ result' = Outcome(r)
             /\ requests' = r.log
             /\ local' = r.local
    /\ UNCHANGED <<base_path, client, access_token, folders, files>>

----------------------------------------------------------------------------
(* check_sp_folder_exists, create_sp_folder, move_sp_file *)

\* The server's answers.  fault: the server fails this request with a 500.
ExistsStatus(url, fs, fault) ==
    IF ~Authorized THEN 401
    ELSE IF fault THEN 500
    ELSE IF url \in fs THEN StatusOK
    ELSE StatusNotFound

CreateStatus(url, fs, fault) ==
    IF ~Authorized THEN 401
    ELSE IF fault THEN 500
    ELSE IF url # Root /\ dirname(url) \notin fs THEN StatusNotFound
    ELSE StatusCreated

MoveStatus(src, dst, flag, fs, fl, fault) ==
    IF ~Authorized THEN 401
    ELSE IF fault THEN 500
    ELSE IF src \notin fl \/ dirname(dst) \notin fs THEN StatusNotFound
    ELSE IF dst \in fl /\ flag = 0 THEN 400
    ELSE StatusOK

Remote(exc, value, log, fs, fl) ==
    [exc |-> exc, value |-> value, log |-> log, folders |-> fs, files |-> fl]

\* A variant of lines 265-273 that returns False on a 404 instead of raising.
ExistsOutcomeQuiet(st) ==
    IF st = StatusOK THEN [exc |-> NoExc, value |-> TRUE]
    ELSE [exc |-> NoExc, value |-> FALSE]

\* lines 265-273: the status of the existence request to the call's outcome
ExistsOutcome(st) ==
    IF st = StatusOK THEN [exc |-> NoExc, value |-> TRUE]
    ELSE IF st = StatusNotFound /\ RaisesForStatus(st)
         THEN [exc |-> "HTTPError", value |-> None_]
    ELSE [exc |-> NoExc, value |-> FALSE]

check_sp_folder_exists(sp_folder_url, fs, fl, fault) ==
    LET st == ExistsStatus(sp_folder_url, fs, fault)
        req == Req("GET", "GetFolderByServerRelativeUrl", sp_folder_url, st, "")
        o == ExistsOutcome(st)
    IN  Remote(o.exc, o.value, <<req>>, fs, fl)

create_sp_folder(new_folder_url, fs, fl, checkFault, createFault) ==
    LET c == check_sp_folder_exists(new_folder_url, fs, fl, checkFault)
        st == CreateStatus(new_folder_url, fs, createFault)
        req == Req("POST", "folders", new_folder_url, st, "")
    IN  IF c.exc # NoExc THEN c
        ELSE IF c.value THEN Remote(NoExc, FALSE, c.log, fs, fl)
        ELSE IF st = StatusCreated
             THEN Remote(NoExc, TRUE, c.log \o <<req>>, fs \cup {new_folder_url}, fl)
        ELSE IF RaisesForStatus(st) THEN Remote("HTTPError", None_, c.log \o <<req>>, fs, fl)
        ELSE Remote(NoExc, FALSE, c.log \o <<req>>, fs, fl)

\* The requests of one move_sp_file call that the server may fail: the existence
\* check, the check create_sp_folder repeats, the creation, the move.
MovePlans ==
    {{}, {"move"}, {"check"}, {"check", "move"}, {"check", "recheck"},
     {"check", "recheck", "move"}, {"check", "recheck", "create"}}

\* plan: the requests of this call that the server fails with a 500.
move_sp_file(sp_file_url, target_folder_url, overwrite_flag, fs, fl, plan) ==
    LET c == check_sp_folder_exists(target_folder_url, fs, fl, "check" \in plan)
        cr == IF c.exc = NoExc /\ ~c.value
              THEN create_sp_folder(target_folder_url, fs, fl,
                                    "recheck" \in plan, "create" \in plan)
              ELSE Remote(NoExc, None_, <<>>, fs, fl)
        target_file_url == join(target_folder_url, <<basename(sp_file_url)>>)
        st == MoveStatus(sp_file_url, target_file_url, overwrite_flag,
                         cr.folders, fl, "move" \in plan)
        req == Req("POST", "GetFileByServerRelativeUrl/moveTo", sp_file_url, st, "")
        log == c.log \o cr.log \o <<req>>
    IN  IF c.exc # NoExc THEN c
        ELSE IF cr.exc # NoExc THEN Remote(cr.exc, None_, c.log \o cr.log, cr.folders, fl)
        ELSE IF st = StatusOK
             THEN Remote(NoExc, target_file_url, log, cr.folders,
                         (fl \ {sp_file_url}) \cup {target_file_url})
        ELSE IF RaisesForStatus(st) THEN Remote("HTTPError", None_, log, cr.folders, fl)
        ELSE Remote(NoExc, target_file_url, log, cr.folders, fl)

CallCheckSpFolderExists ==
    /\ client = "ready"
    /\ \E url \in FolderUniverse, fault \in BOOLEAN :
         LET r == check_sp_folder_exists(url, folders, files, fault)
         IN  /\ call' = [op |-> "check_sp_folder_exists", sp_folder_url |-> url]
             /\ result' = Outcome(r)
             /\ requests' = r.log
             /\ folders' = r.folders
             /\ files' = r.files
    /\ UNCHANGED <<base_path, client, access_token, local>>

CallCreateSpFolder ==
    /\ client = "ready"
    /\ \E url \in FolderUniverse, checkFault \in BOOLEAN, createFault \in BOOLEAN :
         LET r == create_sp_folder(url, folders, files, checkFault, createFault)
         IN  /\ call' = [op |-> "create_sp_folder", new_folder_url |-> url]
             /\ result' = Outcome(r)
             /\ requests' = r.log
             /\ folders' = r.folders
             /\ files' = r.files
    /\ UNCHANGED <<base_path, client, access_token, local>>

\* The file to move is one of the library's.
CallMoveSpFile ==
    /\ client = "ready"
    /\ \E src \in files, dst \in FolderUniverse, flag \in {0, 1},
          plan \in MovePlans :
         LET r == move_sp_file(src, dst, flag, folders, files, plan)
         IN  /\ call' = [op |-> "move_sp_file", sp_file_url |-> src,
                         target_folder_url |-> dst, overwrite_flag |-> flag]
             /\ result' = Outcome(r)
             /\ requests' = r.log
             /\ folders' = r.folders
             /\ files' = r.files
    /\ UNCHANGED <<base_path, client, access_token, local>>

----------------------------------------------------------------------------
(* Specifications *)

NextWalk == Construct \/ CallGetSpFolderContents

NextDownload == Construct \/ CallDownloadSpFile \/ CallDownloadSpFolder

NextFolders == Construct \/ CallCheckSpFolderExists \/ CallCreateSpFolder

NextManage ==
    Construct \/ CallCheckSpFolderExists \/ CallCreateSpFolder \/ CallMoveSpFile

Next ==
    \/ Construct
    \/ CallGetSpFolderContents
    \/ CallDownloadSpFile
    \/ CallDownloadSpFolder
    \/ CallCheckSpFolderExists
    \/ CallCreateSpFolder
    \/ CallMoveSpFile

\* The folder walk alone, the downloads alone, the folder operations alone,
\* folder and file management, and every operation.  The initial states range
\* over every library of the universe, which create_sp_folder and move_sp_file
\* never leave, so each group of operations starts from every remote state the
\* others can produce; each property is stated for the specification of the
\* operations it is about.
SpecWalk == Init /\ [][NextWalk]_vars
SpecDownload == Init /\ [][NextDownload]_vars
SpecFolders == Init /\ [][NextFolders]_vars
SpecManage == Init /\ [][NextManage]_vars
Spec == Init /\ [][Next]_vars

----------------------------------------------------------------------------
(* Properties *)

IsWalk == call.op = "get_sp_folder_contents"
IsFolderDownload == call.op = "download_sp_folder"

IsUnder(f, start) == Len(f) > Len(start) /\ SubSeq(f, 1, Len(start)) = start
DepthBelow(f, start) == Len(f) - Len(start) - 1

AllSucceeded == \A i \in 1..Len(requests) : requests[i].status = StatusOK
NoServerFault == \A i \in 1..Len(requests) : requests[i].status # 500

IsListing(r) == r.api = "GetFolderByServerRelativeUrl?$expand"
IsTransfer(r) == r.api = "GetFileByServerRelativeUrl/$value"
IsCreation(r) == r.method = "POST" /\ r.api = "folders"
IsMove(r) == r.method = "POST" /\ r.api = "GetFileByServerRelativeUrl/moveTo"

\* C1: every entry a walk returns has rel_path equal to its server-relative
\* path made relative to the start folder of the top-level call, at any depth.
C1_RelPathFromStart ==
    (IsWalk /\ result.exc = NoExc) =>
        \A i \in 1..Len(result.value) :
            result.value[i].rel_path =
                relpath(result.value[i].server_relative_url, call.sp_folder_url)

\* C2: when every folder fetch succeeds, a walk with max_depth N >= 0 returns
\* exactly the files at depth <= N below the start folder (every file when
\* N = -1), each once and tagged with its depth; N = 0 fetches the start folder
\* only.
C2_DepthLimitedListing ==
    (IsWalk /\ AllSucceeded) =>
        LET start == call.sp_folder_url
            N == call.max_depth
            wanted == {f \in files : IsUnder(f, start)
                                     /\ (N = -1 \/ DepthBelow(f, start) <= N)}
        IN  /\ result.exc = NoExc
            /\ {result.value[i].server_relative_url : i \in 1..Len(result.value)} = wanted
            /\ Len(result.value) = Cardinality(wanted)
            /\ \A i \in 1..Len(result.value) :
                 result.value[i].file_depth
                     = DepthBelow(result.value[i].server_relative_url, start)
            /\ (N = 0 => Len(requests) = 1)

\* C8: a folder fetch of a walk that answers with a non-success status is the
\* last request of the walk, and the walk raises: the caller gets no list.
C8_FailedFetchAbortsWalk ==
    IsWalk =>
        \A i \in 1..Len(requests) :
            RaisesForStatus(requests[i].status) =>
                /\ i = Len(requests)
                /\ result.exc = "HTTPError"
                /\ result.value = None_

\* A walk of the whole library that had collected lib/f, failed at lib/A and
\* never fetched lib/B.
C8_Witness ==
    /\ IsWalk
    /\ call.sp_folder_url = Root
    /\ call.max_depth = -1
    /\ base_path # Unbound
    /\ Append(Root, "f") \in files
    /\ Append(Root, "B") \in folders
    /\ Len(requests) = 2
    /\ requests[1].status = StatusOK
    /\ requests[2].url = Append(Root, "A")
    /\ requests[2].status = 500
    /\ Append(Root, "B") \notin Urls(requests)
    /\ result.exc = "HTTPError"

\* Where download_sp_folder puts an entry of the walk.
LocalPath(file, target_dir, flatten) ==
    join(TransferDir(file, target_dir, flatten), <<basename(file.server_relative_url)>>)

\* C6: download_sp_folder writes each discovered file to target_dir joined with
\* its path relative to the start folder, or with flatten to target_dir joined
\* with its base name, where the last file of a name wins.
C6_LocalPathMapping ==
    (IsFolderDownload /\ result.exc = NoExc) =>
        \A i \in 1..Len(result.value) :
            LET url == result.value[i].file_details.server_relative_url
                path == result.value[i].target_path
                same == {j \in 1..Len(result.value) : result.value[j].target_path = path}
                last == CHOOSE j \in same : \A k \in same : k <= j
            IN  /\ path = IF call.flatten
                          THEN join(call.target_dir, <<basename(url)>>)
                          ELSE join(call.target_dir, relpath(url, call.sp_folder_url))
                /\ Resolve(path, <<>>) \in DOMAIN local
                /\ local[Resolve(path, <<>>)].src
                       = result.value[last].file_details.server_relative_url

\* C10: download_sp_folder lists each folder once, before any transfer; it
\* requests the entries in walk order; a transfer that fails is the last
\* request, the call raises without a result, nothing after the failed entry is
\* written, and what the earlier transfers wrote is still there.
C10_FirstFailureAbortsDownload ==
    IsFolderDownload =>
        LET n == Len(requests)
            k == Cardinality({i \in 1..n : IsListing(requests[i])})
            walk == get_sp_folder_contents(call.sp_folder_url, call.max_depth, 0, None_, {})
            done == IF result.exc = "HTTPError" THEN n - 1 ELSE n
            at(j) == Resolve(LocalPath(walk.value[j - k], call.target_dir, call.flatten), <<>>)
        IN  /\ k >= 1
            /\ requests[1].url = call.sp_folder_url
            /\ \A i \in 1..k : IsListing(requests[i])
            /\ \A i \in (k + 1)..n : IsTransfer(requests[i])
            /\ \A i, j \in 1..k : requests[i].url = requests[j].url => i = j
            /\ n > k => /\ walk.exc = NoExc
                        /\ n - k <= Len(walk.value)
                        /\ \A j \in (k + 1)..n :
                             requests[j].url = walk.value[j - k].server_relative_url
                        /\ \A j \in (k + 1)..(n - 1) : at(j) \in DOMAIN local
                        /\ DOMAIN local = {at(j) : j \in (k + 1)..done}
            /\ n = k => local = <<>>
            /\ \A i \in 1..n :
                 RaisesForStatus(requests[i].status) =>
                     i = n /\ result.exc = "HTTPError" /\ result.value = None_
            /\ result.exc = NoExc =>
                 /\ walk.exc = NoExc
                 /\ n - k = Len(walk.value)
                 /\ Len(result.value) = n - k
            /\ result.exc # NoExc => result.value = None_

\* A download that kept the directory structure, wrote its first entry, failed
\* on the second and never asked for the third.
C10_Witness ==
    /\ IsFolderDownload
    /\ ~call.flatten
    /\ result.exc = "HTTPError"
    /\ Len(requests) >= 2
    /\ IsTransfer(requests[Len(requests) - 1])
    /\ requests[Len(requests) - 1].status = StatusOK
    /\ IsTransfer(requests[Len(requests)])
    /\ requests[Len(requests)].status = 500
    /\ Cardinality(DOMAIN local) = 1
    /\ \A p \in DOMAIN local : local[p].complete
    /\ Cardinality({f \in files : IsUnder(f, call.sp_folder_url)}) >= 3
    /\ call.max_depth = -1

IsCheck == call.op = "check_sp_folder_exists"
IsCreate == call.op = "create_sp_folder"

C7_StatusMapping ==
    IsCheck =>
        /\ Len(requests) = 1
        /\ requests[1].method = "GET"
        /\ requests[1].status = StatusOK => result = [exc |-> NoExc, value |-> TRUE]
        /\ requests[1].status = StatusNotFound =>
               result = [exc |-> "HTTPError", value |-> None_]
        /\ requests[1].status \notin {StatusOK, StatusNotFound} =>
               result = [exc |-> NoExc, value |-> FALSE]

Creations == {i \in 1..Len(requests) : IsCreation(requests[i])}

\* C5: create_sp_folder on a present path returns false and issues no creation
\* request; on an absent path it issues exactly one, returns true on 201 and
\* raises on any other answer.  (Stated for an existence check the server
\* answers truthfully: 200 for a present folder, 404 for an absent one.)
C5_CreateContract ==
    (IsCreate /\ requests[1].status \in {StatusOK, StatusNotFound}) =>
        /\ requests[1].status = StatusOK =>
               result = [exc |-> NoExc, value |-> FALSE] /\ Creations = {}
        /\ requests[1].status = StatusNotFound =>
               /\ Cardinality(Creations) = 1
               /\ \A i \in Creations :
                    IF requests[i].status = StatusCreated
                    THEN result = [exc |-> NoExc, value |-> TRUE]
                    ELSE result.exc = "HTTPError"

\* C4: after a create_sp_folder call, a second call on the same path (server
\* answering truthfully, creation permitted) returns false, does not raise,
\* issues no creation request and leaves the folder set as the first call left it.
C4_CreateTwice ==
    (/\ IsCreate
     /\ Authorized
     /\ NoServerFault
     /\ call.new_folder_url # Root
     /\ dirname(call.new_folder_url) \in folders) =>
        LET second == create_sp_folder(call.new_folder_url, folders, files, FALSE, FALSE)
        IN  /\ second.exc = NoExc
            /\ second.value = FALSE
            /\ \A i \in 1..Len(second.log) : ~IsCreation(second.log[i])
            /\ second.folders = folders

\* C3: move_sp_file into a folder whose existence check answers 404, on a server
\* that accepts the creation and the move, creates the folder, then issues the
\* move, and returns the destination folder joined with the source's base name.
C3_MoveCreatesFolder ==
    [][(/\ call'.op = "move_sp_file"
        /\ requests'[1].status = StatusNotFound
        /\ call'.sp_file_url \in files
        /\ dirname(call'.target_folder_url) \in folders
        /\ \A i \in 1..Len(requests') : requests'[i].status # 500) =>
           /\ result'.exc = NoExc
           /\ result'.value
                  = join(call'.target_folder_url, <<basename(call'.sp_file_url)>>)
           /\ call'.target_folder_url \in folders'
           /\ \E i, j \in 1..Len(requests') :
                i < j /\ IsCreation(requests'[i]) /\ IsMove(requests'[j])]_vars

\* C9: construction raises when the token request answers with a non-success
\* status or a body without access_token, so a constructed client holds a
\* token; and no later operation asks for a token again.
C9_TokenPresent ==
    /\ call.op = "__init__" =>
           ((RaisesForStatus(requests[1].status) \/ requests[1].body # "access_token")
                => result.exc # NoExc)
    /\ client = "ready" => access_token # None_
    /\ call.op \notin {"none", "__init__"} =>
           \A i \in 1..Len(requests) : requests[i].api # "tokens/OAuth/2"

====
